---- MODULE Spec2Model ----
(***************************************************************************)
(* Model of gvm-cli (src/gmp/clients/gvm_cli.py): the main() function of   *)
(* the command line client.  main() is a straight-line program; the model  *)
(* follows it statement by statement, with the environment (command line,  *)
(* config file, standard input, terminal prompts and the transport         *)
(* collaborator) supplying its inputs at the statement that reads them.    *)
(***************************************************************************)
EXTENDS Integers, Sequences, FiniteSets

(***************************************************************************)
(* Bounds of the model.                                                    *)
(***************************************************************************)
\* longest request text (in characters) supplied by flag, stream or prompt
MaxLen == 2
\* the --timeout values are the sentinel -1, the negative number -MaxTimeout
\* and the default 60
MaxTimeout == 2

(***************************************************************************)
(* Python values.  A str is a sequence of one-character strings; None and  *)
(* "key not in dict" are separate values.                                  *)
(***************************************************************************)
None == [t |-> "none", v |-> <<>>]
Absent == [t |-> "absent", v |-> <<>>]
Str(s) == [t |-> "str", v |-> s]

\* Python truthiness of an optional str: None and '' are falsy
Truthy(x) == x.t = "str" /\ Len(x.v) > 0

LF == "\n"
CR == "\r"
PayloadChars == {"x", LF, CR}

RECURSIVE SeqsUpTo(_, _)
SeqsUpTo(S, n) ==
    IF n = 0 THEN {<<>>}
    ELSE LET shorter == SeqsUpTo(S, n - 1)
         IN  shorter \cup {Append(s, c) : s \in {q \in shorter : Len(q) = n - 1}, c \in S}

\* texts the --xml flag or a piped stream can hold
Texts == SeqsUpTo(PayloadChars, MaxLen)
\* input() returns one line without its line feed
Lines == {s \in Texts : \A i \in 1..Len(s) : s[i] # LF}

UserNames == {<<>>, <<"u">>}
Passwords == {<<>>, <<"p">>}
\* getpass.getpass() returns the typed line, possibly empty
Secrets == {<<>>, <<"s">>}

Keys == {"gmp_username", "gmp_password"}
KeyStrings(k) == IF k = "gmp_username" THEN UserNames ELSE Passwords

\* line 109: --timeout default
DefaultTimeout == 60
Timeouts == {-MaxTimeout, -1, DefaultTimeout}
NoTimeout == [t |-> "none", v |-> 0]
IntTimeout(n) == [t |-> "int", v |-> n]

\* connection_type tokens, as character sequences
SOCKET == <<"s", "o", "c", "k", "e", "t">>
TLS == <<"t", "l", "s">>
SSH == <<"s", "s", "h">>
TELNET == <<"t", "e", "l", "n", "e", "t">>
\* lines 123-149: the sub-commands registered with the parser
KnownTokens == {SSH, TLS, SOCKET}
Tokens == KnownTokens \cup {TELNET}

VARIABLES
    pc,          \* position in main()
    config,      \* args.config given (line 89)
    cfgFile,     \* what the config file holds: status and the Auth items
    defaults,    \* the defaults dict (lines 91-102)
    cli,         \* the command line: --gmp-username, --gmp-password, --timeout
                 \* and the connection_type token
    args,        \* the parsed namespace (line 159 onwards)
    xml,         \* the local variable xml
    acquired,    \* the text as acquired, before line 187
    stdin,       \* what args.infile.read() did: not read, text returned, or raised
    calls,       \* the calls made on the environment, in order
    ctorArgs,    \* arguments of the transport constructor call
    authArgs,    \* arguments of gvm.authenticate
    sent,        \* argument of gvm.send
    secret,      \* value returned by getpass.getpass, None if not asked
    result,      \* value returned by gvm.read
    out,         \* what print() wrote, in order
    exitCode,    \* process exit status, -1 while the process runs
    raised       \* the exception that left main() uncaught, "" if none

vars == <<pc, config, cfgFile, defaults, cli, args, xml, acquired, stdin, calls,
          ctorArgs, authArgs, sent, secret, result, out, exitCode, raised>>

\* lines 91-94
BuiltinDefaults == [k \in Keys |-> Str(<<>>)]

NoArgs == [gmp_username |-> None, gmp_password |-> None,
           timeout |-> IntTimeout(DefaultTimeout), connection_type |-> <<>>,
           xml |-> None, isatty |-> TRUE]

Init ==
    /\ pc = "parse_known_args"
    /\ config = FALSE
    /\ cfgFile = [status |-> "unread", items |-> [k \in Keys |-> Absent]]
    /\ defaults = BuiltinDefaults
    /\ cli = [gmp_username |-> None, gmp_password |-> None, timeout |-> DefaultTimeout,
              connection_type |-> <<>>]
    /\ args = NoArgs
    /\ xml = <<>>
    /\ acquired = <<>>
    /\ stdin = [status |-> "unread", text |-> <<>>]
    /\ calls = <<>>
    /\ ctorArgs = [kind |-> "", timeout |-> NoTimeout]
    /\ authArgs = [username |-> None, password |-> None]
    /\ sent = <<>>
    /\ secret = None
    /\ result = <<>>
    /\ out = <<>>
    /\ exitCode = -1
    /\ raised = ""

Printed(kind, text) == [kind |-> kind, text |-> text]

\* line 89: the -c/--config flag is parsed first
ParseKnownArgs ==
    /\ pc = "parse_known_args"
    /\ \E given \in BOOLEAN : config' = given
    /\ pc' = "load_config"
    /\ UNCHANGED <<cfgFile, defaults, cli, args, xml, acquired, stdin, calls, ctorArgs,
                   authArgs, sent, secret, result, out, exitCode, raised>>

\* the Auth sections a readable config file can hold: each key present or not
AuthSections == {f \in [Keys -> {Absent} \cup {Str(s) : s \in UserNames \cup Passwords}] :
                    \A k \in Keys : f[k] = Absent \/ f[k].v \in KeyStrings(k)}

\* lines 101-102: config.read raises on a malformed file; a missing or
\* unreadable file is skipped by config.read and, like a file without the
\* section, makes config.items('Auth') raise
ConfigErrors == {"malformed", "no_section"}

\* line 102: defaults = dict(config.items('Auth'))
DictOfItems(items, old) == items

\* LoadConfig with the defaults emptied before the file is read
LoadConfig_m ==
    /\ pc = "load_config"
    /\ IF config
       THEN \/ \E why \in ConfigErrors :
                 /\ cfgFile' = [cfgFile EXCEPT !.status = why]
                 /\ out' = Append(out, Printed("config_error", <<>>))
                 /\ defaults' = [k \in Keys |-> Absent]
            \/ \E items \in AuthSections :
                 /\ cfgFile' = [status |-> "ok", items |-> items]
                 /\ defaults' = DictOfItems(items, defaults)
                 /\ UNCHANGED out
       ELSE UNCHANGED <<cfgFile, defaults, out>>
    /\ pc' = "parse_args"
    /\ UNCHANGED <<config, cli, args, xml, acquired, stdin, calls, ctorArgs,
                   authArgs, sent, secret, result, exitCode, raised>>

\* lines 96-104: retrieve data from the config file
LoadConfig ==
    /\ pc = "load_config"
    /\ IF config
       THEN \/ \* the exception is printed, defaults keeps its value
               \E why \in ConfigErrors :
                 /\ cfgFile' = [cfgFile EXCEPT !.status = why]
                 /\ out' = Append(out, Printed("config_error", <<>>))
                 /\ UNCHANGED defaults
            \/ \E items \in AuthSections :
                 /\ cfgFile' = [status |-> "ok", items |-> items]
                 /\ defaults' = DictOfItems(items, defaults)
                 /\ UNCHANGED out
       ELSE UNCHANGED <<cfgFile, defaults, out>>
    /\ pc' = "parse_args"
    /\ UNCHANGED <<config, cli, args, xml, acquired, stdin, calls, ctorArgs,
                   authArgs, sent, secret, result, exitCode, raised>>

\* line 212: sys.exit(1)
ExitConstructFailed == 1
\* line 223: sys.exit(0)
ExitOk == 0
\* line 159: parser.parse_args exits with status 2 on a usage error
ExitUsage == 2
\* line 227: an exception that leaves main() ends the interpreter with status 1
ExitUncaught == 1

\* lines 106, 116-117: parent_parser.set_defaults(**defaults) followed by
\* add_argument without default: the option's default is the dict's value
\* when the key is in the dict, None otherwise
ArgDefault(d, k) == IF d[k] # Absent THEN d[k] ELSE None

\* line 159: the parsed value of an option is the command line's when the
\* flag is given, its default otherwise
Parsed(c, d, k) == IF c[k] # None THEN c[k] ELSE ArgDefault(d, k)

\* Registered accepting any token as the sub-command
Registered_m(tok) == TRUE

\* lines 77-79, 123-149: parse_args accepts as connection_type only the name
\* of a sub-parser that was added
Registered(tok) == tok \in KnownTokens

CliValues(k) == {None} \cup {Str(s) : s \in KeyStrings(k)}

\* lines 106-159: declare the options and parse the command line
ParseArgs ==
    /\ pc = "parse_args"
    /\ \E u \in CliValues("gmp_username"), p \in CliValues("gmp_password"),
          tmo \in Timeouts, tok \in Tokens,
          x \in {None} \cup {Str(s) : s \in Texts} :
         LET c == [gmp_username |-> u, gmp_password |-> p, timeout |-> tmo,
                   connection_type |-> tok]
         IN  /\ cli' = c
             /\ IF Registered(tok)
                THEN /\ args' = [gmp_username |-> Parsed(c, defaults, "gmp_username"),
                                 gmp_password |-> Parsed(c, defaults, "gmp_password"),
                                 timeout |-> IntTimeout(tmo),
                                 connection_type |-> tok,
                                 xml |-> x,
                                 isatty |-> TRUE]
                     /\ pc' = "timeout"
                     /\ UNCHANGED exitCode
                ELSE \* lines 77-79: a sub-command is required and must be
                     \* one of the registered ones
                     /\ args' = args
                     /\ pc' = "done"
                     /\ exitCode' = ExitUsage
    /\ UNCHANGED <<config, cfgFile, defaults, xml, acquired, stdin, calls, ctorArgs,
                   authArgs, sent, secret, result, out, raised>>

\* TimeoutArg taking every negative timeout for the sentinel
TimeoutArg_m(tmo) == IF tmo.v < 0 THEN NoTimeout ELSE tmo

\* lines 166-168: timeout -1 means no timeout
TimeoutArg(tmo) == IF tmo = IntTimeout(-1) THEN NoTimeout ELSE tmo

SetTimeout ==
    /\ pc = "timeout"
    /\ args' = [args EXCEPT !.timeout = TimeoutArg(args.timeout)]
    /\ pc' = "acquire"
    /\ UNCHANGED <<config, cfgFile, defaults, cli, xml, acquired, stdin, calls,
                   ctorArgs, authArgs, sent, secret, result, out, exitCode, raised>>

\* Acquire without the except clause of lines 179-180
Acquire_m ==
    /\ pc = "acquire"
    /\ IF args.xml # None
       THEN /\ xml' = args.xml.v
            /\ pc' = "ask_command"
            /\ UNCHANGED <<args, stdin, calls, exitCode, raised>>
       ELSE \E tty \in BOOLEAN :
              /\ args' = [args EXCEPT !.isatty = tty]
              /\ IF tty
                 THEN /\ pc' = "ask_command"
                      /\ UNCHANGED <<xml, stdin, calls, exitCode, raised>>
                 ELSE /\ calls' = Append(calls, "stdin_read")
                      /\ \/ \E text \in Texts :
                              /\ stdin' = [status |-> "read", text |-> text]
                              /\ xml' = text
                              /\ pc' = "ask_command"
                              /\ UNCHANGED <<exitCode, raised>>
                         \/ /\ stdin' = [status |-> "error", text |-> <<>>]
                            /\ pc' = "done"
                            /\ raised' = "BlockingIOError"
                            /\ exitCode' = 1
                            /\ UNCHANGED xml
    /\ UNCHANGED <<config, cfgFile, defaults, cli, acquired, ctorArgs,
                   authArgs, sent, secret, result, out>>

\* lines 170-180: take the request from --xml, else from a piped stream
Acquire ==
    /\ pc = "acquire"
    /\ IF args.xml # None
       THEN /\ xml' = args.xml.v
            /\ UNCHANGED <<args, stdin, calls, out>>
       ELSE \E tty \in BOOLEAN :
              /\ args' = [args EXCEPT !.isatty = tty]
              /\ IF tty
                 THEN UNCHANGED <<xml, stdin, calls, out>>
                 ELSE /\ calls' = Append(calls, "stdin_read")
                      /\ \/ \E text \in Texts :
                              /\ stdin' = [status |-> "read", text |-> text]
                              /\ xml' = text
                              /\ UNCHANGED out
                         \/ \* EOFError or BlockingIOError: print(e)
                            /\ stdin' = [status |-> "error", text |-> <<>>]
                            /\ out' = Append(out, Printed("stream_error", <<>>))
                            /\ UNCHANGED xml
    /\ pc' = "ask_command"
    /\ UNCHANGED <<config, cfgFile, defaults, cli, acquired, ctorArgs,
                   authArgs, sent, secret, result, exitCode, raised>>

\* Uncaught with the exception swallowed and a status of success
Uncaught_m(e) ==
    /\ pc' = "done"
    /\ raised' = e
    /\ exitCode' = ExitOk

\* an exception leaves main(): the interpreter prints the traceback to
\* stderr and exits
Uncaught(e) ==
    /\ pc' = "done"
    /\ raised' = e
    /\ exitCode' = ExitUncaught

\* NoCommand off by one: a one-character request counts as missing
NoCommand_m(x) == Len(x) <= 1

\* line 183: the request counts as missing when it has no characters
NoCommand(x) == Len(x) = 0

\* lines 182-184: if no command was given, the program asks for one
AskCommand ==
    /\ pc = "ask_command"
    /\ IF NoCommand(xml)
       THEN /\ calls' = Append(calls, "input")
            /\ \/ \E line \in Lines :
                    /\ xml' = line
                    /\ pc' = "strip"
                    /\ UNCHANGED <<exitCode, raised>>
               \/ \* input() meets end of file
                  /\ Uncaught("EOFError")
                  /\ UNCHANGED xml
       ELSE /\ pc' = "strip"
            /\ UNCHANGED <<xml, calls, exitCode, raised>>
    /\ UNCHANGED <<config, cfgFile, defaults, cli, args, acquired, stdin, ctorArgs,
                   authArgs, sent, secret, result, out>>

\* str.replace(c, ''): every occurrence of c removed, the rest kept in order
RECURSIVE Remove(_, _)
Remove(s, c) ==
    IF s = <<>> THEN <<>>
    ELSE IF Head(s) = c THEN Remove(Tail(s), c)
         ELSE <<Head(s)>> \o Remove(Tail(s), c)

\* StripNewlines without the second replace
StripNewlines_m(s) == Remove(s, LF)

\* line 187: xml.replace('\n', '').replace('\r', '')
StripNewlines(s) == Remove(Remove(s, LF), CR)

\* lines 186-187
Strip ==
    /\ pc = "strip"
    /\ acquired' = xml
    /\ xml' = StripNewlines(xml)
    /\ pc' = "ask_password"
    /\ UNCHANGED <<config, cfgFile, defaults, cli, args, stdin, calls, ctorArgs,
                   authArgs, sent, secret, result, out, exitCode, raised>>

\* NeedsPassword comparing the password with '' instead of testing it
NeedsPassword_m(a) == Truthy(a.gmp_username) /\ a.gmp_password = Str(<<>>)

\* NeedsPassword without the test of the username
NeedsPassword_m2(a) == ~Truthy(a.gmp_password)

\* line 190: args.gmp_username and not args.gmp_password
NeedsPassword(a) == Truthy(a.gmp_username) /\ ~Truthy(a.gmp_password)

\* AskPassword with the prompt left for after the connection
AskPassword_m ==
    /\ pc = "ask_password"
    /\ pc' = "construct"
    /\ UNCHANGED <<config, cfgFile, defaults, cli, args, xml, acquired, stdin,
                   calls, ctorArgs, authArgs, sent, secret, result, out,
                   exitCode, raised>>

\* lines 189-192: ask for the password if none is given
AskPassword ==
    /\ pc = "ask_password"
    /\ IF NeedsPassword(args)
       THEN /\ calls' = Append(calls, "getpass")
            /\ \/ \E typed \in Secrets :
                    /\ secret' = Str(typed)
                    /\ args' = [args EXCEPT !.gmp_password = Str(typed)]
                    /\ pc' = "construct"
                    /\ UNCHANGED <<exitCode, raised>>
               \/ \* getpass meets end of file
                  /\ Uncaught("EOFError")
                  /\ UNCHANGED <<args, secret>>
       ELSE /\ pc' = "construct"
            /\ UNCHANGED <<args, secret, calls, exitCode, raised>>
    /\ UNCHANGED <<config, cfgFile, defaults, cli, xml, acquired, stdin, ctorArgs,
                   authArgs, sent, result, out>>

\* Python's `sub in tok` on strings: sub occurs as a contiguous part of tok
Contains(sub, tok) ==
    \E i \in 0..(Len(tok) - Len(sub)) : SubSeq(tok, i + 1, i + Len(sub)) = sub

\* lines 196-209: open the right connection, SSH at last for default
ConnectionClass(tok) ==
    IF Contains(SOCKET, tok) THEN "UnixSocketConnection"
    ELSE IF Contains(TLS, tok) THEN "TLSConnection"
    ELSE "SSHConnection"

\* lines 199, 205, 208: timeout=args.timeout in each constructor call
CtorTimeout(a) == a.timeout

\* Construct without the sys.exit(1) of the except clause
Construct_m ==
    /\ pc = "construct"
    /\ calls' = Append(calls, "construct")
    /\ ctorArgs' = [kind |-> ConnectionClass(args.connection_type),
                    timeout |-> CtorTimeout(args)]
    /\ \/ /\ pc' = "authenticate"
          /\ UNCHANGED <<out, exitCode>>
       \/ /\ out' = Append(out, Printed("construct_error", <<>>))
          /\ pc' = "authenticate"
          /\ UNCHANGED exitCode
    /\ UNCHANGED <<config, cfgFile, defaults, cli, args, xml, acquired, stdin,
                   authArgs, sent, secret, result, raised>>

\* lines 194-212: construct the transport; any Exception is printed and the
\* process exits with status 1
Construct ==
    /\ pc = "construct"
    /\ calls' = Append(calls, "construct")
    /\ ctorArgs' = [kind |-> ConnectionClass(args.connection_type),
                    timeout |-> CtorTimeout(args)]
    /\ \/ /\ pc' = "authenticate"
          /\ UNCHANGED <<out, exitCode>>
       \/ /\ out' = Append(out, Printed("construct_error", <<>>))
          /\ pc' = "done"
          /\ exitCode' = ExitConstructFailed
    /\ UNCHANGED <<config, cfgFile, defaults, cli, args, xml, acquired, stdin,
                   authArgs, sent, secret, result, raised>>

\* WantsAuth testing the username against None only
WantsAuth_m(a) == a.gmp_username # None

\* line 214: if args.gmp_username
WantsAuth(a) == Truthy(a.gmp_username)

\* lines 214-215: authenticate when a username is set
Authenticate ==
    /\ pc = "authenticate"
    /\ IF WantsAuth(args)
       THEN /\ calls' = Append(calls, "authenticate")
            /\ authArgs' = [username |-> args.gmp_username,
                            password |-> args.gmp_password]
            /\ \/ /\ pc' = "send"
                  /\ UNCHANGED <<exitCode, raised>>
               \/ Uncaught("AuthError")
       ELSE /\ pc' = "send"
            /\ UNCHANGED <<calls, authArgs, exitCode, raised>>
    /\ UNCHANGED <<config, cfgFile, defaults, cli, args, xml, acquired, stdin,
                   ctorArgs, sent, secret, result, out>>

\* Send trying again when the transport raises
Send_m ==
    /\ pc = "send"
    /\ calls' = Append(calls, "send")
    /\ sent' = xml
    /\ \/ /\ pc' = "read"
          /\ UNCHANGED <<exitCode, raised>>
       \/ /\ pc' = "send"
          /\ UNCHANGED <<exitCode, raised>>
    /\ UNCHANGED <<config, cfgFile, defaults, cli, args, xml, acquired, stdin,
                   ctorArgs, authArgs, secret, result, out>>

\* line 217: gvm.send(xml)
Send ==
    /\ pc = "send"
    /\ calls' = Append(calls, "send")
    /\ sent' = xml
    /\ \/ /\ pc' = "read"
          /\ UNCHANGED <<exitCode, raised>>
       \/ Uncaught("IOError")
    /\ UNCHANGED <<config, cfgFile, defaults, cli, args, xml, acquired, stdin,
                   ctorArgs, authArgs, secret, result, out>>

\* the responses the service can give
Responses == {<<"o", "k">>, <<"e", "r", "r">>}

\* line 219: result = gvm.read()
Read ==
    /\ pc = "read"
    /\ calls' = Append(calls, "read")
    /\ \/ \E r \in Responses :
            /\ result' = r
            /\ pc' = "print"
            /\ UNCHANGED <<exitCode, raised>>
       \/ /\ \E e \in {"TimeoutError", "IOError"} : Uncaught(e)
          /\ UNCHANGED result
    /\ UNCHANGED <<config, cfgFile, defaults, cli, args, xml, acquired, stdin,
                   ctorArgs, authArgs, sent, secret, out>>

\* PrintResult writing the request instead of the response
PrintResult_m ==
    /\ pc = "print"
    /\ calls' = Append(calls, "print")
    /\ out' = Append(out, Printed("response", xml))
    /\ pc' = "close"
    /\ UNCHANGED <<config, cfgFile, defaults, cli, args, xml, acquired, stdin,
                   ctorArgs, authArgs, sent, secret, result, exitCode, raised>>

\* line 220: print(result)
PrintResult ==
    /\ pc = "print"
    /\ calls' = Append(calls, "print")
    /\ out' = Append(out, Printed("response", result))
    /\ pc' = "close"
    /\ UNCHANGED <<config, cfgFile, defaults, cli, args, xml, acquired, stdin,
                   ctorArgs, authArgs, sent, secret, result, exitCode, raised>>

\* line 221: gvm.close()
Close ==
    /\ pc = "close"
    /\ calls' = Append(calls, "close")
    /\ pc' = "exit"
    /\ UNCHANGED <<config, cfgFile, defaults, cli, args, xml, acquired, stdin,
                   ctorArgs, authArgs, sent, secret, result, out, exitCode, raised>>

\* line 223: sys.exit(0)
Exit ==
    /\ pc = "exit"
    /\ exitCode' = ExitOk
    /\ pc' = "done"
    /\ UNCHANGED <<config, cfgFile, defaults, cli, args, xml, acquired, stdin, calls,
                   ctorArgs, authArgs, sent, secret, result, out, raised>>

Next ==
    \/ ParseKnownArgs
    \/ LoadConfig
    \/ ParseArgs
    \/ SetTimeout
    \/ Acquire
    \/ AskCommand
    \/ Strip
    \/ AskPassword
    \/ Construct
    \/ Authenticate
    \/ Send
    \/ Read
    \/ PrintResult
    \/ Close
    \/ Exit

Spec == Init /\ [][Next]_vars

\* the call named c was made
Called(c) == \E i \in 1..Len(calls) : calls[i] = c
\* the process has terminated
Terminated == pc = "done"

(***************************************************************************)
(* Vocabulary of the properties.                                           *)
(***************************************************************************)
\* the constructor raised (lines 210-212 ran)
ConstructFailed == \E i \in 1..Len(out) : out[i].kind = "construct_error"
\* the constructor returned a transport
Constructed == Called("construct") /\ ~ConstructFailed
\* call a was made, and before any call b
Before(a, b) ==
    \E i \in 1..Len(calls) :
        /\ calls[i] = a
        /\ \A j \in 1..i : calls[j] # b
\* the username and the password as resolved from the layers, before any prompt
EffUser == Parsed(cli, defaults, "gmp_username")
EffPass == Parsed(cli, defaults, "gmp_password")
\* the whole sequence ran: construct, authenticate when applicable, send,
\* read, print, close
Completed ==
    /\ Constructed
    /\ Truthy(EffUser) => Called("authenticate")
    /\ Called("send") /\ Called("read") /\ Called("print") /\ Called("close")
    /\ raised = ""
IsNewline(c) == c \in {LF, CR}
NotNewline(c) == ~IsNewline(c)

(***************************************************************************)
(* C1.  In every run in which the transport was constructed, close() is    *)
(* called on it before the process terminates, also when authenticate,     *)
(* send or read fails.  The code has no try/finally around lines 214-221:  *)
(* TLC refutes this.                                                       *)
(***************************************************************************)
C1_CloseBeforeTermination == (Terminated /\ Constructed) => Called("close")

(***************************************************************************)
(* C2 as stated.  With a non-empty username and an empty password,         *)
(* authenticate is never called with an empty password, whatever the       *)
(* secret prompt returns.  Refuted by a prompt that returns ''.            *)
(***************************************************************************)
C2_NeverEmptyPassword ==
    (Called("authenticate") /\ Truthy(EffUser) /\ ~Truthy(EffPass))
        => Truthy(authArgs.password)

(***************************************************************************)
(* C2 as amended.  With a non-empty username and an empty password, the    *)
(* secret prompt is performed before authenticate and authenticate gets    *)
(* the prompt's result as its password: the password argument is empty     *)
(* only when the prompt itself returned the empty string.                  *)
(***************************************************************************)
C2_PromptResultSubstituted ==
    (Called("authenticate") /\ Truthy(EffUser) /\ ~Truthy(EffPass))
        => /\ Before("getpass", "authenticate")
           /\ secret # None
           /\ authArgs.password = secret
           /\ authArgs.password # None
           /\ (authArgs.password = Str(<<>>) <=> secret = Str(<<>>))

C2_Witness ==
    /\ Called("authenticate")
    /\ Truthy(EffUser)
    /\ EffPass = None
    /\ authArgs.password = Str(<<"s">>)

(***************************************************************************)
(* C3.  With an empty effective username authenticate is never called,     *)
(* and the payload is still sent on the constructed transport, for every   *)
(* connection kind and every combination of file and command line values.  *)
(***************************************************************************)
C3_NoAuthWithoutUser ==
    ~Truthy(EffUser)
        => /\ ~Called("authenticate")
           /\ (Constructed /\ pc \in {"read", "print", "close", "exit", "done"})
                 => Called("send")

C3_Witness ==
    /\ Terminated
    /\ cfgFile.status = "ok"
    /\ cfgFile.items["gmp_username"] = Str(<<"u">>)
    /\ cli["gmp_username"] = Str(<<>>)
    /\ Called("send")
    /\ ~Called("authenticate")
    /\ ctorArgs.kind = "UnixSocketConnection"

(***************************************************************************)
(* C4.  The effective value of a key is that of the highest-priority       *)
(* layer (command line, then file section, then built-in defaults) in      *)
(* which it is present; a key absent from the file section and the command *)
(* line keeps its built-in default ''.  Line 102 replaces the defaults     *)
(* dict instead of updating it: TLC refutes this.                          *)
(***************************************************************************)
LayeredValue(k) ==
    IF cli[k] # None THEN cli[k]
    ELSE IF cfgFile.status = "ok" /\ cfgFile.items[k] # Absent THEN cfgFile.items[k]
    ELSE Str(<<>>)

C4_HighestLayerWins ==
    pc = "timeout" => \A k \in Keys : args[k] = LayeredValue(k)

(***************************************************************************)
(* C5.  When the construction of the transport fails, the error is         *)
(* printed, the process exits with status 1 and none of authenticate,      *)
(* send, read and close is called.                                         *)
(***************************************************************************)
C5_ConstructFailureIsFatal ==
    ConstructFailed
        => /\ Terminated
           /\ exitCode = 1
           /\ out[Len(out)].kind = "construct_error"
           /\ \A c \in {"authenticate", "send", "read", "close", "print"} : ~Called(c)

C5_Witness ==
    /\ ConstructFailed
    /\ exitCode = 1
    /\ ctorArgs.kind = "TLSConnection"
    /\ Truthy(EffUser)

(***************************************************************************)
(* C6.  The payload passed to send() is never the empty string.  A stream  *)
(* of newlines only, or an empty interactive line, reaches send() as '':   *)
(* TLC refutes this.                                                       *)
(***************************************************************************)
C6_PayloadNeverEmpty == Called("send") => Len(sent) >= 1

(***************************************************************************)
(* C7.  The string passed to send() holds no line feed and no carriage     *)
(* return, and is the acquired string with exactly those characters        *)
(* removed, the others kept in order.                                      *)
(***************************************************************************)
C7_SentIsStripped ==
    Called("send")
        => /\ \A i \in 1..Len(sent) : ~IsNewline(sent[i])
           /\ sent = SelectSeq(acquired, NotNewline)

C7_Witness ==
    /\ Called("send")
    /\ acquired = <<"x", LF>>
    /\ sent = <<"x">>

C9_ConfigErrorNotFatal ==
    cfgFile.status \in ConfigErrors
        => /\ \E i \in 1..Len(out) : out[i].kind = "config_error"
           /\ pc # "load_config"
           /\ pc = "parse_args" => (~Terminated /\ exitCode = -1)
           /\ pc = "timeout" =>
                 \A k \in Keys : args[k] = IF cli[k] # None THEN cli[k] ELSE Str(<<>>)
           /\ (exitCode = 1 /\ raised = "") => ConstructFailed

C9_Witness ==
    /\ cfgFile.status = "no_section"
    /\ cli["gmp_username"] = None
    /\ cli["gmp_password"] = None
    /\ args.gmp_username = Str(<<>>)
    /\ args.gmp_password = Str(<<>>)
    /\ Called("read")
    /\ exitCode = 0

(***************************************************************************)
(* C10.  The timeout handed to the transport constructor is "no timeout"   *)
(* exactly when the configured timeout is -1; every other integer,         *)
(* 0 and the other negative ones included, is passed unchanged, for each   *)
(* of the three connection classes.                                        *)
(***************************************************************************)
C10_TimeoutSentinel ==
    Called("construct")
        => /\ ctorArgs.timeout = NoTimeout <=> cli.timeout = -1
           /\ cli.timeout # -1 => ctorArgs.timeout = IntTimeout(cli.timeout)
           /\ ctorArgs.kind \in {"UnixSocketConnection", "TLSConnection", "SSHConnection"}

C10_Witness ==
    /\ Called("construct")
    /\ cli.timeout = -2
    /\ ctorArgs.timeout = IntTimeout(-2)
    /\ ctorArgs.kind = "SSHConnection"

(***************************************************************************)
(* Vocabulary of the properties, continued.                                *)
(***************************************************************************)
\* how many times the call named c was made
Count(c) == Cardinality({i \in 1..Len(calls) : calls[i] = c})
\* the call named c was made once at most
AtMostOnce(c) ==
    \A i \in 1..Len(calls) :
        calls[i] = c => \A j \in (i + 1)..Len(calls) : calls[j] # c
\* the positions of main() before the command line is parsed
BeforeParse == {"parse_known_args", "load_config", "parse_args"}
\* the positions of main() before the request is looked for
BeforeAcquire == BeforeParse \cup {"timeout", "acquire"}
\* the positions of main() between the constructor and sys.exit(0)
InSession == {"authenticate", "send", "read", "print", "close", "exit"}
\* the command line was accepted and lines 170-180 have run
PastAcquire ==
    /\ cli.connection_type \in KnownTokens
    /\ pc \notin BeforeAcquire
\* lines 182-184 have run as well
PastAskCommand == PastAcquire /\ pc # "ask_command"
\* input() returned, or was not needed
CommandGiven == ~(raised = "EOFError" /\ calls[Len(calls)] = "input")
\* lines 189-192 have run as well
PastAskPassword ==
    PastAskCommand /\ CommandGiven /\ pc \notin {"strip", "ask_password"}
\* the request after the flag and the stream were looked at, before any prompt
FlagOrStream ==
    IF args.xml # None THEN args.xml.v
    ELSE IF ~args.isatty /\ stdin.status = "read" THEN stdin.text
    ELSE <<>>

(***************************************************************************)
(* C11.  The request is taken first-match-wins: with the --xml flag given  *)
(* its value is the request and the stream is never read; otherwise, when  *)
(* the stream is not a terminal, the stream is read and its whole content  *)
(* is the request; the one-line prompt is performed exactly when the       *)
(* request is still empty after these two steps, and at most once.         *)
(***************************************************************************)
C11_FirstMatchWins ==
    /\ args.xml # None => ~Called("stdin_read")
    /\ Called("stdin_read") <=> (PastAcquire /\ args.xml = None /\ ~args.isatty)
    /\ AtMostOnce("stdin_read")
    /\ (PastAcquire /\ pc = "ask_command") => xml = FlagOrStream
    /\ PastAskCommand => (Called("input") <=> Len(FlagOrStream) = 0)
    /\ ~PastAskCommand => ~Called("input")
    /\ AtMostOnce("input")

C11_Witness ==
    /\ args.xml = None
    /\ stdin = [status |-> "read", text |-> <<>>]
    /\ Called("stdin_read")
    /\ Called("input")
    /\ Called("send")
    /\ sent = <<"x">>

\* the class each sub-command stands for
ClassNamed(tok) ==
    CASE tok = SOCKET -> "UnixSocketConnection"
      [] tok = TLS -> "TLSConnection"
      [] tok = SSH -> "SSHConnection"
      [] OTHER -> "none"

(***************************************************************************)
(* C12.  At most one transport is constructed in a run, and it is the one  *)
(* the connection_type token names (socket, tls, ssh); a token that is     *)
(* none of the three is rejected by the parser with a usage error, so the  *)
(* dispatch of lines 196-209 never maps it to its default class.           *)
(***************************************************************************)
C12_OneNamedTransport ==
    /\ AtMostOnce("construct")
    /\ Called("construct")
          => /\ cli.connection_type \in {SOCKET, TLS, SSH}
             /\ args.connection_type = cli.connection_type
             /\ ctorArgs.kind = ClassNamed(cli.connection_type)
    /\ (cli.connection_type \notin {SOCKET, TLS, SSH}
          /\ pc \notin BeforeParse)
          => /\ Terminated
             /\ exitCode = 2
             /\ calls = <<>>

C12_Witness ==
    /\ cli.connection_type = TELNET
    /\ Terminated
    /\ exitCode = 2
    /\ ~Called("construct")

\* the calls made on the transport, and their place in the session
SessionCalls == {"construct", "authenticate", "send", "read", "close"}
IsSessionCall(c) == c \in SessionCalls
\* the session in full, with and without authentication, and its prefixes
FullSessions == {<<"construct", "authenticate", "send", "read", "close">>,
                 <<"construct", "send", "read", "close">>}
SessionPrefixes == UNION {{SubSeq(f, 1, n) : n \in 0..Len(f)} : f \in FullSessions}

(***************************************************************************)
(* C14.  The session is strictly linear: the calls made on the transport   *)
(* are at every moment a prefix of construct, authenticate (when due),     *)
(* send, read, close, so each is called at most once and in that order,    *)
(* and a failure of a step ends the run with that step as the last call:   *)
(* no earlier step runs again.                                             *)
(***************************************************************************)
C14_LinearSession ==
    /\ SelectSeq(calls, IsSessionCall) \in SessionPrefixes
    /\ raised = "AuthError" => (Terminated /\ calls[Len(calls)] = "authenticate")
    /\ raised = "IOError" => (Terminated /\ calls[Len(calls)] \in {"send", "read"})
    /\ raised = "TimeoutError" => (Terminated /\ calls[Len(calls)] = "read")
    /\ ConstructFailed => (Terminated /\ calls[Len(calls)] = "construct")

C14_Witness ==
    /\ Terminated
    /\ raised = "IOError"
    /\ Called("authenticate")
    /\ calls[Len(calls)] = "send"
    /\ Count("construct") = 1

(***************************************************************************)
(* C15.  The secret prompt is performed exactly when the effective         *)
(* username is non-empty and the effective password is empty or unset; it  *)
(* is performed at most once, never with an empty username, and what it    *)
(* returns is the password argument of authenticate.                       *)
(***************************************************************************)
C15_SecretPrompt ==
    LET asked == Called("getpass")
        user == Truthy(EffUser)
    IN  /\ IF PastAskPassword THEN asked <=> (user /\ ~Truthy(EffPass))
                              ELSE ~asked
        /\ AtMostOnce("getpass")
        /\ ~user => ~asked
        /\ ~asked => secret = None
        /\ Called("authenticate")
              => IF asked THEN secret # None /\ authArgs.password = secret
                          ELSE authArgs.password = EffPass

C15_Witness ==
    /\ cli.gmp_username = Str(<<"u">>)
    /\ cli.gmp_password = Str(<<>>)
    /\ Count("getpass") = 1
    /\ Called("authenticate")
    /\ authArgs.password = Str(<<"s">>)

\* the places in the output where a response was printed
ResponsesPrinted == {i \in 1..Len(out) : out[i].kind = "response"}

(***************************************************************************)
(* C16.  A response is printed only after read() has returned, at most     *)
(* once, and it is the value read() returned; a run in which construct,    *)
(* authenticate, send or read fails prints no response, and a run that     *)
(* exits with 0 printed exactly one.                                       *)
(***************************************************************************)
C16_ResponsePrinted ==
    /\ ResponsesPrinted \subseteq {Len(out)}
    /\ ResponsesPrinted # {}
          => /\ Before("read", "print")
             /\ result \in Responses
             /\ out[Len(out)].text = result
             /\ raised = ""
    /\ Called("print") <=> ResponsesPrinted # {}
    /\ AtMostOnce("print")
    /\ (ConstructFailed \/ raised # "") => ResponsesPrinted = {}
    /\ (Terminated /\ exitCode = 0) => ResponsesPrinted # {}

C16_Witness ==
    /\ Terminated
    /\ exitCode = 0
    /\ result = <<"e", "r", "r">>
    /\ out[Len(out)] = Printed("response", <<"e", "r", "r">>)

\* the points at which main() waits for the user or the stream
Suspensions == {"stdin_read", "input", "getpass"}

(***************************************************************************)
(* C17.  The stream read, the request prompt and the secret prompt all     *)
(* come before the construction of the transport: none happens after a     *)
(* call on the transport, and when the constructor is called (whether it   *)
(* then fails or not) every prompt that was due has been made.             *)
(***************************************************************************)
C17_PromptsBeforeSession ==
    /\ \A i \in 1..(Len(calls) - 1) :
          calls[i] \notin Suspensions => calls[i + 1] \notin Suspensions
    /\ Called("construct")
          => /\ (args.xml = None /\ ~args.isatty) => Called("stdin_read")
             /\ Len(FlagOrStream) = 0 => Called("input")
             /\ (Truthy(EffUser) /\ ~Truthy(EffPass)) => Called("getpass")
    /\ pc \in InSession => calls[Len(calls)] \notin Suspensions

C17_Witness ==
    /\ ConstructFailed
    /\ calls = <<"stdin_read", "input", "getpass", "construct">>

(***************************************************************************)
(* C18.  A failure while the piped stream is read is not fatal: the error  *)
(* is printed, the request is taken as empty, the one-line prompt follows, *)
(* and once the prompt has returned the run goes on to the session; a run  *)
(* that ends before the transport is constructed ends at a prompt, not at  *)
(* the stream.                                                             *)
(***************************************************************************)
C18_StreamErrorNotFatal ==
    stdin.status = "error"
        => /\ \E i \in 1..Len(out) : out[i].kind = "stream_error"
           /\ FlagOrStream = <<>>
           /\ pc # "acquire"
           /\ pc = "ask_command" => (xml = <<>> /\ ~Terminated /\ raised = "")
           /\ PastAskCommand => Before("stdin_read", "input")
           /\ (PastAskCommand /\ CommandGiven) => ~(Terminated /\ calls[Len(calls)] = "input")
           /\ (Terminated /\ ~Called("construct"))
                 => (raised = "EOFError" /\ calls[Len(calls)] \in {"input", "getpass"})

C18_Witness ==
    /\ stdin.status = "error"
    /\ Called("read")
    /\ calls[1] = "stdin_read"
    /\ calls[2] = "input"
    /\ sent = <<"x">>
    /\ exitCode = 0

====
